---------------------------- MODULE Spec2Model ----------------------------
(***************************************************************************)
(* Model of astrbot_plugin_bangumi: the rate-limited, cached API client    *)
(* (API_Bangumi), the command handlers of BangumiPlugin, and the image      *)
(* fetch-and-convert helper (get_img_changeFormat) used by _build_reply.    *)
(*                                                                         *)
(* Time is counted in tenths of a second, so 1.1 s is 11 and 300 s is 3000.*)
(* Coroutines run on one asyncio event loop: a step of the model is the    *)
(* code a coroutine runs between two suspension points (await), which the  *)
(* loop runs without interleaving.                                         *)
(***************************************************************************)
EXTENDS Integers, Sequences, FiniteSets, TLC

\* ------------------------------------------------------------------ bounds
NTasks == 2
MaxCalls == 3
MaxTicks == 2
TickStep == 4

\* ------------------------------------------------------- program constants
\* main.py:70-71, the 1.1 s spacing, in tenths of a second
MinInterval == 11
\* main.py:121, the 300 s call_later delay, in tenths of a second
CacheTTL == 3000

Tasks == 1..NTasks

\* ----------------------------------------------------------------- inputs
Keywords == {"k"}
Limits == {0, 1}
NoPage == [data |-> <<>>, total |-> -1]
\* search result pages the remote API may answer with
Pages == {[data |-> <<>>, total |-> 0], [data |-> <<7>>, total |-> 3]}
ErrorBody == [data |-> <<>>, total |-> -2]
Statuses == {200, 201, 404, 429, 500}
\* an HTTP response: its status, whether its body parses as JSON, its body
Responses ==
    {[status |-> 200, json |-> TRUE, body |-> p] : p \in Pages}
    \cup {[status |-> s, json |-> j, body |-> ErrorBody] :
            s \in Statuses \ {200}, j \in BOOLEAN}
NoResponse == [status |-> 0, json |-> FALSE, body |-> NoPage]

SearchOps == {"search_subjects", "search_characters", "search_persons"}

VARIABLES
    now,                \* time.time() / loop.time()
    last_request_time,  \* API_Bangumi.last_request_time
    search_cache,       \* API_Bangumi.search_cache: cache_key -> page
    timers,             \* pending call_later handles: [key, at]
    task,               \* the coroutines calling the API client
    prev_dispatch,      \* history: the dispatch time before last_request_time
    last_write,         \* history: cache_key -> when it was last written
    fetched,            \* history: the bodies of the 200 responses received
    last_call,          \* history: the API call that returned or raised last
    ncalls,             \* number of API calls started
    nticks,             \* number of free clock steps taken
    cmd,                \* the command handler that is running
    api_log,            \* history: the API operations the handler has called
    img,                \* the _build_reply calls in progress
    files,              \* the files that exist in TEMP_DIR
    fmt                 \* the formatter call: its input and what came of it

apiVars == <<now, last_request_time, search_cache, timers, task, prev_dispatch,
             last_write, fetched, last_call, ncalls, nticks>>
cmdVars == <<cmd, api_log>>
imgVars == <<img, files>>
fmtVars == <<fmt>>
vars == <<apiVars, cmdVars, imgVars, fmtVars>>

\* ---------------------------------------------------------------- helpers
Ok(page) == [kind |-> "ok", value |-> page, code |-> 200]
Raise(exc, code) == [kind |-> exc, value |-> NoPage, code |-> code]
NoResult == [kind |-> "none", value |-> NoPage, code |-> 0]

\* main.py:110  cache_key = f"search:{keyword}:{limit}"; limit is an int, so
\* the text after the last colon is the limit and the key determines the pair
CacheKey(keyword, limit) == <<"search", keyword, limit>>

IdleTask ==
    [pc |-> "idle", op |-> "none", keyword |-> "", limit |-> 1, wake |-> 0]

NoCall ==
    [op |-> "none", keyword |-> "", limit |-> 1, hit |-> FALSE, status |-> 0,
     body |-> NoPage, result |-> NoResult]

\* what a finished call leaves in last_call
Finished(call, hit, r, outcome) ==
    [op |-> call.op, keyword |-> call.keyword, limit |-> call.limit, hit |-> hit, status |-> r.status, body |-> r.body, result |-> outcome]

\* _handle_response without its 429 branch
HandleResponse_No429(r) ==
    IF r.status = 200 THEN Ok(r.body)
    ELSE IF r.status = 404 THEN Raise("NoSubjectFound", 404)
    ELSE Raise("BangumiApiError", r.status)

\* main.py:89-105 _handle_response; the error text of lines 99-104 is only
\* logged, whether the body parses as JSON (r.json) or not
HandleResponse(r) ==
    IF r.status = 200 THEN Ok(r.body)
    ELSE IF r.status = 404 THEN Raise("NoSubjectFound", 404)
    ELSE IF r.status = 429 THEN Raise("BangumiRateLimitError", 429)
    ELSE Raise("BangumiApiError", r.status)

\* main.py:85-87 the except clause of _request
TransportFailure == Raise("BangumiApiError", 0)

\* a sleep of the whole interval, whatever has elapsed
SleepFor_Flat(current_time, last) == MinInterval

\* main.py:71 the argument of asyncio.sleep
SleepFor(current_time, last) == MinInterval - (current_time - last)

\* main.py:70 the condition under which _request sleeps
MustWait(current_time, last) == current_time - last < MinInterval

Min(S) == CHOOSE x \in S : \A y \in S : x <= y

\* when the entry now cached under key was written
cached_at(key) == last_write[key]

Deadlines ==
    {task[t].wake : t \in {u \in Tasks : task[u].pc = "sleep"}}
    \cup {tm.at : tm \in timers}

\* ------------------------------------------------------ command handlers
\* the characters a query is made of: two decimal digits, a superscript two
\* (a digit that is not a decimal digit) and a letter
Alphabet == {"1", "7", "sup2", "a"}
MaxQueryLen == 2
Queries == UNION {[1..n -> Alphabet] : n \in 1..MaxQueryLen}

\* main.py:331 the default of max_fuzzy_results
max_fuzzy_results == 5

LookupHandlers == {"accurate_search", "get_character", "get_person"}
FuzzyHandlers == {"fuzzy_search", "fuzzy_search_characters", "fuzzy_search_persons"}
Handlers == LookupHandlers \cup FuzzyHandlers \cup {"get_user"}

\* the search operation a handler calls (main.py:363, 398, 431, 466, 499, 534)
SearchOpOf(h) ==
    IF h \in {"accurate_search", "fuzzy_search"} THEN "search_subjects"
    ELSE IF h \in {"get_character", "fuzzy_search_characters"} THEN "search_characters"
    ELSE "search_persons"

\* the get operation a handler calls (main.py:360, 429, 497, 564)
GetOpOf(h) ==
    IF h = "accurate_search" THEN "get_subject_details"
    ELSE IF h = "get_character" THEN "get_character_details"
    ELSE IF h = "get_person" THEN "get_person_details"
    ELSE "get_user_details"

\* str.isdigit() as main.py:358 uses it: true of a non-empty string whose
\* characters are all digits, superscript digits included
IsDigitChar(c) == c \in {"1", "7", "sup2"}
str_isdigit(q) == Len(q) > 0 /\ \A i \in 1..Len(q) : IsDigitChar(q[i])

\* int() as main.py:360 uses it: it parses decimal digits and raises
\* ValueError on any other character
IsDecimalChar(c) == c \in {"1", "7"}
int_parses(q) == Len(q) > 0 /\ \A i \in 1..Len(q) : IsDecimalChar(q[i])
DigitValue(c) == IF c = "1" THEN 1 ELSE 7
RECURSIVE int_value(_)
int_value(q) ==
    IF Len(q) = 0 THEN 0
    ELSE 10 * int_value(SubSeq(q, 1, Len(q) - 1)) + DigitValue(q[Len(q)])

ApiCall(op, query, id, limit) ==
    [op |-> op, query |-> query, id |-> id, limit |-> limit]

IdleCmd ==
    [pc |-> "idle", handler |-> "none", query |-> <<>>, search_data |-> NoPage,
     exc |-> "none", reply |-> "none"]

\* what an API operation can return or raise to a handler
ApiOutcomes == {HandleResponse(r) : r \in Responses} \cup {TransportFailure}

\* the except clauses of the handlers: main.py:374-382, 442-450, 510-518,
\* 569-577 (lookup and user commands) and 406-412, 474-480, 542-548 (the
\* fuzzy-search commands, which have no NoSubjectFound clause)
ExceptReply(h, exc) ==
    IF h \notin FuzzyHandlers /\ exc = "NoSubjectFound" THEN "not_found"
    ELSE IF exc = "BangumiRateLimitError" THEN "rate_limit"
    ELSE IF exc = "BangumiApiError" THEN "api_error"
    ELSE "internal_error"

\* ------------------------------------------------------- image handling
NImgTasks == 2
ImgTasks == 1..NImgTasks

\* an image URL: its scheme, the stem and extension of its last path
\* segment, and its query string
NoUrl == [scheme |-> "none", stem |-> "", ext |-> "", query |-> ""]
Urls ==
    {[scheme |-> "http", stem |-> "a", ext |-> "png", query |-> ""],
     [scheme |-> "http", stem |-> "a", ext |-> "png", query |-> "r=2"],
     [scheme |-> "http", stem |-> "b", ext |-> "png", query |-> ""],
     [scheme |-> "ftp", stem |-> "a", ext |-> "png", query |-> ""]}

\* method.py:25 url.startswith('http')
UrlValid(u) == u.scheme = "http"

\* method.py:28 filename = os.path.basename(url.split('?')[0]): the query
\* string is dropped
Filename(u) == <<u.stem, u.ext>>

\* method.py:29 filepath = save_dir/temp_<filename>
TempPath(u) == [kind |-> "temp", stem |-> u.stem, ext |-> u.ext]

\* method.py:30 output_path = save_dir/<stem>.jpeg
OutputPath(u) == [kind |-> "out", stem |-> u.stem, ext |-> "jpeg"]

\* the exception class behind each way image handling fails: method.py:26,
\* method.py:38, aiohttp, PIL and the file system
ExcOf(failure) ==
    IF failure = "invalid_url" THEN "ValueError"
    ELSE IF failure = "status" THEN "Exception"
    ELSE IF failure = "transport" THEN "ClientError"
    ELSE IF failure = "missing_temp" THEN "FileNotFoundError"
    ELSE IF failure = "decode" THEN "UnidentifiedImageError"
    ELSE "OSError"

\* an except clause that lets everything but ValueError through
ImageErrorCaught_ValueErrorOnly(exc) == exc = "ValueError"

\* main.py:597 except Exception: every exception class above derives from it
ImageErrorCaught(exc) ==
    exc \in {"ValueError", "Exception", "ClientError", "FileNotFoundError",
             "UnidentifiedImageError", "OSError"}

ImgReply(text, image, raised) == [text |-> text, image |-> image, raised |-> raised]
NoReply == ImgReply(FALSE, "none", FALSE)

\* main.py:597-603 what _build_reply makes of a failure of image handling
ReplyAfterFailure(failure) ==
    IF ImageErrorCaught(ExcOf(failure))
    THEN ImgReply(TRUE, "none", FALSE)
    ELSE ImgReply(FALSE, "none", TRUE)

IdleImg ==
    [pc |-> "idle", url |-> NoUrl, use_filesystem |-> FALSE, same_url |-> FALSE,
     failure |-> "none", reply |-> NoReply]

\* the suspension points of get_img_changeFormat (method.py:32-50)
GetImgPcs == {"get", "open", "write", "convert"}

\* method.py:55-61 the finally block: remove filepath if it exists, whoever
\* created it; os.remove of a file in the plugin's own directory succeeds
TempCleanup(fs, f) == fs \ {f}

\* ----------------------------------------------------------- formatters
\* no formatter call in progress
IdleFmt == [pc |-> "idle", fn |-> "none", payload |-> <<>>, limit |-> 0,
            out |-> <<>>]

\* ------------------------------------------------------------------- Init
\* API_Bangumi.__init__ (main.py:63-64); the clock of a running process is
\* far more than 1.1 s past 0
Init ==
    /\ now = MinInterval
    /\ last_request_time = 0
    /\ search_cache = <<>>
    /\ timers = {}
    /\ task = [t \in Tasks |-> IdleTask]
    /\ prev_dispatch = 0
    /\ last_write = <<>>
    /\ fetched = {}
    /\ last_call = NoCall
    /\ ncalls = 0
    /\ nticks = 0
    /\ cmd = IdleCmd
    /\ api_log = <<>>
    /\ img = [t \in ImgTasks |-> IdleImg]
    /\ files = {}
    /\ fmt = IdleFmt

\* ------------------------------------------------------------- _request
\* main.py:72 the dispatch: last_request_time = time.time(), then the
\* request is sent
Dispatch ==
    /\ last_request_time' = now
    /\ prev_dispatch' = last_request_time

\* main.py:69-72 up to the first suspension: either the coroutine goes to
\* sleep, or it records the dispatch time and sends the request
RequestEnter(t, call) ==
    LET current_time == now IN
    IF MustWait(current_time, last_request_time)
    THEN /\ task' = [task EXCEPT ![t] =
                [call EXCEPT !.pc = "sleep",
                             !.wake = now + SleepFor(current_time, last_request_time)]]
         /\ UNCHANGED <<last_request_time, prev_dispatch>>
    ELSE /\ task' = [task EXCEPT ![t] = [call EXCEPT !.pc = "http"]]
         /\ Dispatch

\* main.py:71-72 asyncio.sleep returns and the request is dispatched
Wake(t) ==
    /\ task[t].pc = "sleep"
    /\ now >= task[t].wake
    /\ Dispatch
    /\ task' = [task EXCEPT ![t].pc = "http", ![t].wake = 0]
    /\ UNCHANGED <<cmdVars, imgVars, fmtVars>>
    /\ UNCHANGED <<now, search_cache, timers, last_write, fetched, last_call,
                   ncalls, nticks>>

\* main.py:120-121 the cache write and its eviction timer
CacheStore(key, data) ==
    /\ search_cache' = [k \in DOMAIN search_cache \cup {key} |->
                          IF k = key THEN data ELSE search_cache[k]]
    /\ last_write' = [k \in DOMAIN last_write \cup {key} |->
                          IF k = key THEN now ELSE last_write[k]]
    /\ timers' = timers \cup {[key |-> key, at |-> now + CacheTTL]}

\* search_subjects storing whatever came back, failures included
StoresResult_Always(op, outcome) ==
    op = "search_subjects"

\* main.py:118-123 search_subjects stores what _request returned; an
\* exception raised by _request leaves the function at line 118
StoresResult(op, outcome) ==
    op = "search_subjects" /\ outcome.kind = "ok"

\* the coroutine resumes with the outcome of _request (main.py:75-87),
\* search_subjects runs on to its return (main.py:118-123), and the caller
\* has the result or the exception
Finish(t, r, outcome) ==
    /\ task' = [task EXCEPT ![t] = IdleTask]
    /\ last_call' = Finished(task[t], FALSE, r, outcome)
    /\ fetched' = IF r.status = 200 THEN fetched \cup {r.body} ELSE fetched
    /\ IF StoresResult(task[t].op, outcome)
       THEN CacheStore(CacheKey(task[t].keyword, task[t].limit), outcome.value)
       ELSE UNCHANGED <<search_cache, last_write, timers>>
    /\ UNCHANGED <<cmdVars, imgVars, fmtVars>>
    /\ UNCHANGED <<now, last_request_time, prev_dispatch, ncalls, nticks>>

\* main.py:76-84 the response arrives and _handle_response classifies it
Respond(t) ==
    /\ task[t].pc = "http"
    /\ \E r \in Responses : Finish(t, r, HandleResponse(r))

\* main.py:85-87 aiohttp.ClientError
TransportFail(t) ==
    /\ task[t].pc = "http"
    /\ Finish(t, NoResponse, TransportFailure)

\* ------------------------------------------------------- API operations
\* main.py:108-118 search_subjects up to its first suspension: a hit returns
\* at line 112, a miss enters _request
SearchSubjects(t) ==
    /\ task[t].pc = "idle"
    /\ ncalls < MaxCalls
    /\ \E keyword \in Keywords, limit \in Limits :
        LET key == CacheKey(keyword, limit)
            call == [IdleTask EXCEPT !.op = "search_subjects",
                        !.keyword = keyword, !.limit = limit]
        IN  IF key \in DOMAIN search_cache
            THEN /\ last_call' = Finished(call, TRUE, NoResponse,
                                          Ok(search_cache[key]))
                 /\ UNCHANGED <<task, last_request_time, prev_dispatch>>
            ELSE /\ RequestEnter(t, call)
                 /\ UNCHANGED last_call
    /\ ncalls' = ncalls + 1
    /\ UNCHANGED <<cmdVars, imgVars, fmtVars>>
    /\ UNCHANGED <<now, search_cache, timers, last_write, fetched, nticks>>

\* main.py:181-186, 232-237 search_characters, search_persons
SearchUncached(t) ==
    /\ task[t].pc = "idle"
    /\ ncalls < MaxCalls
    /\ \E op \in SearchOps \ {"search_subjects"}, keyword \in Keywords,
          limit \in Limits :
        RequestEnter(t, [IdleTask EXCEPT !.op = op, !.keyword = keyword,
                                         !.limit = limit])
    /\ ncalls' = ncalls + 1
    /\ UNCHANGED <<cmdVars, imgVars, fmtVars>>
    /\ UNCHANGED <<now, search_cache, timers, last_write, fetched, last_call,
                   nticks>>

\* main.py:125-128, 188-191, 239-242, 283-287 the uncached GET operations
GetDetails(t) ==
    /\ task[t].pc = "idle"
    /\ ncalls < MaxCalls
    /\ RequestEnter(t, [IdleTask EXCEPT !.op = "get_subject_details"])
    /\ ncalls' = ncalls + 1
    /\ UNCHANGED <<cmdVars, imgVars, fmtVars>>
    /\ UNCHANGED <<now, search_cache, timers, last_write, fetched, last_call,
                   nticks>>

\* main.py:121 lambda: self.search_cache.pop(cache_key, None)
TimerFire ==
    \E tm \in timers :
        /\ tm.at <= now
        /\ timers' = timers \ {tm}
        /\ search_cache' = [k \in DOMAIN search_cache \ {tm.key} |-> search_cache[k]]
        /\ UNCHANGED <<cmdVars, imgVars, fmtVars>>
        /\ UNCHANGED <<now, last_request_time, task, prev_dispatch, last_write,
                       fetched, last_call, ncalls, nticks>>

\* ------------------------------------------------------------- the clock
\* the event loop resumes a sleeper and runs a call_later callback when its
\* time comes: the clock does not pass a pending deadline
AdvanceToDeadline ==
    /\ Deadlines # {}
    /\ now < Min(Deadlines)
    /\ now' = Min(Deadlines)
    /\ UNCHANGED <<cmdVars, imgVars, fmtVars>>
    /\ UNCHANGED <<last_request_time, search_cache, timers, task, prev_dispatch,
                   last_write, fetched, last_call, ncalls, nticks>>

\* time passes with nothing due
Tick ==
    /\ nticks < MaxTicks
    /\ \A d \in Deadlines : now + TickStep <= d
    /\ now' = now + TickStep
    /\ nticks' = nticks + 1
    /\ UNCHANGED <<cmdVars, imgVars, fmtVars>>
    /\ UNCHANGED <<last_request_time, search_cache, timers, task, prev_dispatch,
                   last_write, fetched, last_call, ncalls>>

\* ------------------------------------------------------------ properties
\* C1: any two request dispatches are at least 1.1 seconds apart, whatever
\* the interleaving of the callers of _request.
C1_MinSpacing ==
    prev_dispatch # 0 => last_request_time - prev_dispatch >= MinInterval

\* a search_subjects call of task t that misses the cache and enters _request
MissStep(t) ==
    /\ task[t].pc = "idle"
    /\ task'[t].pc # "idle"
    /\ task'[t].op = "search_subjects"

\* a search_subjects call answered from the cache
HitStep ==
    /\ ncalls' = ncalls + 1
    /\ task' = task
    /\ last_call'.hit

\* C2: a search_subjects call made after a call for the same (keyword, limit)
\* has returned successfully, and less than 300 seconds after that call's
\* page was cached, is answered from the cache with no request; a call made
\* more than 300 seconds after the entry was cached fetches anew.
C2_CachedWithinTTL ==
    [][/\ \A t \in Tasks :
            MissStep(t) =>
                LET key == CacheKey(task'[t].keyword, task'[t].limit)
                IN  key \in DOMAIN last_write => now - last_write[key] >= CacheTTL
       /\ HitStep =>
            LET key == CacheKey(last_call'.keyword, last_call'.limit)
            IN  now - last_write[key] <= CacheTTL]_vars

\* C3: an entry written to search_cache stays, unchanged, until exactly 300
\* seconds after it was written and is removed then: never overwritten while
\* cached, never removed earlier or later.
C3_EntryLifetime ==
    /\ [](\A k \in DOMAIN search_cache : now <= cached_at(k) + CacheTTL)
    /\ [][\A k \in DOMAIN search_cache :
            IF k \in DOMAIN search_cache'
            THEN search_cache'[k] = search_cache[k] /\ last_write'[k] = last_write[k]
            ELSE now = cached_at(k) + CacheTTL]_vars

\* the request of a search_subjects call ends with an exception
FailedSearchStep ==
    \E t \in Tasks :
        /\ task[t].pc = "http"
        /\ task[t].op = "search_subjects"
        /\ task'[t].pc = "idle"
        /\ last_call'.result.kind # "ok"

\* C4: a failed request of search_subjects leaves search_cache unchanged and
\* schedules no eviction timer, and every value in search_cache is the body
\* of a response that came with status 200.
C4_OnlyFetchedPagesCached ==
    /\ [](\A k \in DOMAIN search_cache : search_cache[k] \in fetched)
    /\ [][FailedSearchStep =>
            search_cache' = search_cache /\ timers' = timers]_vars

\* a search_subjects request has failed while an earlier page is cached
C4_Witness ==
    /\ last_call.op = "search_subjects"
    /\ last_call.result.kind \in {"NoSubjectFound", "BangumiRateLimitError",
                                  "BangumiApiError"}
    /\ DOMAIN search_cache # {}

C7_LimitValidated ==
    /\ \A t \in Tasks :
            (task[t].op \in SearchOps /\ task[t].limit <= 0) => task[t].pc = "idle"
    /\ (last_call.op \in SearchOps /\ last_call.limit <= 0) =>
            last_call.result.kind = "ValidationError"

Next ==
    \/ \E t \in Tasks : SearchSubjects(t)
    \/ \E t \in Tasks : SearchUncached(t)
    \/ \E t \in Tasks : GetDetails(t)
    \/ \E t \in Tasks : Wake(t)
    \/ \E t \in Tasks : Respond(t)
    \/ \E t \in Tasks : TransportFail(t)
    \/ TimerFire
    \/ AdvanceToDeadline
    \/ Tick

Spec == Init /\ [][Next]_vars

\* ------------------------------------------- command handlers: the steps
\* the handler leaves through a return or an except clause
Replied(reply, exc) ==
    cmd' = [cmd EXCEPT !.pc = "replied", !.reply = reply, !.exc = exc]

\* main.py:355-367 (and 426-435, 494-503): the id-or-keyword resolution up to
\* the first API call
LookupStart(h, q) ==
    IF str_isdigit(q)
    THEN IF int_parses(q)
         THEN /\ cmd' = [IdleCmd EXCEPT !.pc = "get", !.handler = h, !.query = q]
              /\ api_log' = <<ApiCall(GetOpOf(h), <<>>, int_value(q), 0)>>
         ELSE /\ cmd' = [IdleCmd EXCEPT !.pc = "replied", !.handler = h,
                            !.query = q, !.exc = "ValueError",
                            !.reply = ExceptReply(h, "ValueError")]
              /\ api_log' = <<>>
    ELSE /\ cmd' = [IdleCmd EXCEPT !.pc = "search", !.handler = h, !.query = q]
         /\ api_log' = <<ApiCall(SearchOpOf(h), q, -1, 1)>>

\* a command arrives with its query (main.py:344-356 and the like)
CmdStart ==
    /\ cmd.pc = "idle"
    /\ \E h \in Handlers, q \in Queries :
        IF h \in LookupHandlers THEN LookupStart(h, q)
        ELSE IF h \in FuzzyHandlers
        THEN /\ cmd' = [IdleCmd EXCEPT !.pc = "search", !.handler = h, !.query = q]
             /\ api_log' = <<ApiCall(SearchOpOf(h), q, -1, max_fuzzy_results)>>
        ELSE /\ cmd' = [IdleCmd EXCEPT !.pc = "get", !.handler = h, !.query = q]
             /\ api_log' = <<ApiCall(GetOpOf(h), q, -1, 0)>>
    /\ UNCHANGED <<apiVars, imgVars, fmtVars>>

\* the search returns or raises: main.py:363-367, 398-404 and the like
CmdSearchDone ==
    /\ cmd.pc = "search"
    /\ \E o \in ApiOutcomes :
        IF o.kind # "ok"
        THEN Replied(ExceptReply(cmd.handler, o.kind), o.kind) /\ UNCHANGED api_log
        ELSE IF cmd.handler \in FuzzyHandlers
        THEN Replied("list", "none") /\ UNCHANGED api_log
        ELSE IF o.value.data = <<>>
        THEN Replied("not_found", "none") /\ UNCHANGED api_log
        ELSE /\ cmd' = [cmd EXCEPT !.pc = "get", !.search_data = o.value]
             /\ api_log' = Append(api_log,
                    ApiCall(GetOpOf(cmd.handler), <<>>, o.value.data[1], 0))
    /\ UNCHANGED <<apiVars, imgVars, fmtVars>>

\* the get returns or raises: main.py:369-372, 565-567 and the like
CmdGetDone ==
    /\ cmd.pc = "get"
    /\ \E o \in ApiOutcomes :
        IF o.kind # "ok"
        THEN Replied(ExceptReply(cmd.handler, o.kind), o.kind)
        ELSE Replied("info", "none")
    /\ UNCHANGED <<apiVars, imgVars, fmtVars, api_log>>

\* the reply is sent and the handler is over
CmdEnd ==
    /\ cmd.pc = "replied"
    /\ cmd' = IdleCmd
    /\ api_log' = <<>>
    /\ UNCHANGED <<apiVars, imgVars, fmtVars>>

NextCmd ==
    \/ CmdStart
    \/ CmdSearchDone
    \/ CmdGetDone
    \/ CmdEnd

SpecCmd == Init /\ [][NextCmd]_vars

\* C6: in a lookup command, a query of digits only makes exactly one
\* get-by-id request and no search; any other query makes one search with
\* limit 1 first and then, if data is empty, ends with the not-found reply
\* and no get-by-id, else makes exactly one get-by-id for the first entry.
C6_Resolution ==
    (cmd.pc = "replied" /\ cmd.handler \in LookupHandlers) =>
        IF str_isdigit(cmd.query)
        THEN /\ Len(api_log) = 1
             /\ api_log[1].op = GetOpOf(cmd.handler)
        ELSE /\ Len(api_log) >= 1
             /\ api_log[1] = ApiCall(SearchOpOf(cmd.handler), cmd.query, -1, 1)
             /\ Len(api_log) = 1 =>
                    (cmd.exc # "none" \/ cmd.reply = "not_found")
             /\ Len(api_log) > 1 =>
                    /\ Len(api_log) = 2
                    /\ cmd.search_data.data # <<>>
                    /\ api_log[2] = ApiCall(GetOpOf(cmd.handler), <<>>,
                                            cmd.search_data.data[1], 0)

\* C8: in every command handler NoSubjectFound gives the not-found reply,
\* BangumiRateLimitError the rate-limit reply, BangumiApiError the API-error
\* reply, and the internal-error reply is given only for other exceptions.
C8_ErrorReplies ==
    cmd.pc = "replied" =>
        /\ cmd.exc = "NoSubjectFound" => cmd.reply = "not_found"
        /\ cmd.exc = "BangumiRateLimitError" => cmd.reply = "rate_limit"
        /\ cmd.exc = "BangumiApiError" => cmd.reply = "api_error"
        /\ cmd.reply = "internal_error" =>
                cmd.exc \notin {"none", "NoSubjectFound", "BangumiRateLimitError",
                                "BangumiApiError"}

\* ------------------------------------------------ image handling: steps
\* get_img_changeFormat raises (method.py:52-61): its finally block removes
\* the temporary file; _build_reply's except clause takes the exception
\* (main.py:597-603); temp_file_path is unset, so its finally block does
\* nothing and _build_reply returns
GetImgFail(t, failure, fs) ==
    /\ files' = TempCleanup(fs, TempPath(img[t].url))
    /\ img' = [img EXCEPT ![t].pc = "done", ![t].failure = failure,
                          ![t].reply = ReplyAfterFailure(failure)]

\* main.py:580-589 and method.py:25-36: _build_reply up to the first
\* suspension, the GET of the image
BuildReplyStart(t) ==
    /\ img[t].pc = "idle"
    /\ \E url \in Urls \cup {NoUrl}, ufs \in BOOLEAN :
        IF url = NoUrl
        THEN img' = [img EXCEPT ![t] = [IdleImg EXCEPT !.pc = "done",
                        !.use_filesystem = ufs,
                        !.reply = ImgReply(TRUE, "none", FALSE)]]
        ELSE IF ~UrlValid(url)
        THEN img' = [img EXCEPT ![t] = [IdleImg EXCEPT !.pc = "done",
                        !.url = url, !.use_filesystem = ufs,
                        !.failure = "invalid_url",
                        !.reply = ReplyAfterFailure("invalid_url")]]
        ELSE LET sharing == {u \in ImgTasks \ {t} :
                                /\ img[u].pc \in GetImgPcs
                                /\ img[u].url = url}
             IN  img' = [u \in ImgTasks |->
                    IF u = t
                    THEN [IdleImg EXCEPT !.pc = "get", !.url = url,
                             !.use_filesystem = ufs, !.same_url = sharing # {}]
                    ELSE IF u \in sharing
                    THEN [img[u] EXCEPT !.same_url = TRUE]
                    ELSE img[u]]
    /\ UNCHANGED <<files, apiVars, cmdVars, fmtVars>>

\* method.py:36-38 the response to the GET arrives
ImgResponse(t) ==
    /\ img[t].pc = "get"
    /\ \E outcome \in {"ok", "status", "transport"} :
        IF outcome = "ok"
        THEN img' = [img EXCEPT ![t].pc = "open"] /\ UNCHANGED files
        ELSE GetImgFail(t, outcome, files)
    /\ UNCHANGED <<apiVars, cmdVars, fmtVars>>

\* method.py:40 aiofiles.open(filepath, "wb") creates the file
ImgOpen(t) ==
    /\ img[t].pc = "open"
    /\ files' = files \cup {TempPath(img[t].url)}
    /\ img' = [img EXCEPT ![t].pc = "write"]
    /\ UNCHANGED <<apiVars, cmdVars, fmtVars>>

\* method.py:41 the body is read and written through the open handle
ImgWrite(t) ==
    /\ img[t].pc = "write"
    /\ \E ok \in BOOLEAN :
        IF ok
        THEN img' = [img EXCEPT ![t].pc = "convert"] /\ UNCHANGED files
        ELSE GetImgFail(t, "transport", files)
    /\ UNCHANGED <<apiVars, cmdVars, fmtVars>>

\* method.py:44-50 the conversion, then main.py:590-609: the image is
\* attached and _build_reply enters the sleep of its finally block
ImgConvert(t) ==
    /\ img[t].pc = "convert"
    /\ LET temp == TempPath(img[t].url)
           out == OutputPath(img[t].url)
       IN  IF temp \notin files
           THEN GetImgFail(t, "missing_temp", files)
           ELSE \E r \in {"ok", "decode", "encode", "encode_partial"},
                   readable \in BOOLEAN :
                IF r = "decode" THEN GetImgFail(t, "decode", files)
                ELSE IF r = "encode" THEN GetImgFail(t, "encode", files)
                ELSE IF r = "encode_partial"
                THEN GetImgFail(t, "encode", files \cup {out})
                ELSE /\ files' = TempCleanup(files \cup {out}, temp)
                     /\ img' = [img EXCEPT ![t].pc = "cleanup",
                            ![t].failure =
                                IF img[t].use_filesystem \/ readable
                                THEN "none" ELSE "read",
                            ![t].reply =
                                IF img[t].use_filesystem
                                THEN ImgReply(TRUE, "path", FALSE)
                                ELSE IF readable
                                THEN ImgReply(TRUE, "bytes", FALSE)
                                ELSE ReplyAfterFailure("read")]
    /\ UNCHANGED <<apiVars, cmdVars, fmtVars>>

\* a finally block that returns without removing the converted file
BuildCleanup_NoRemove(t) ==
    /\ img[t].pc = "cleanup"
    /\ img' = [img EXCEPT ![t].pc = "done"]
    /\ UNCHANGED <<files, apiVars, cmdVars, fmtVars>>

\* main.py:609-612 after the sleep the converted file is removed, if it is
\* still there, and _build_reply returns
BuildCleanup(t) ==
    /\ img[t].pc = "cleanup"
    /\ files' = files \ {OutputPath(img[t].url)}
    /\ img' = [img EXCEPT ![t].pc = "done"]
    /\ UNCHANGED <<apiVars, cmdVars, fmtVars>>

\* the handler has the reply
ImgEnd(t) ==
    /\ img[t].pc = "done"
    /\ img' = [img EXCEPT ![t] = IdleImg]
    /\ UNCHANGED <<files, apiVars, cmdVars, fmtVars>>

NextImg ==
    \/ \E t \in ImgTasks : BuildReplyStart(t)
    \/ \E t \in ImgTasks : ImgResponse(t)
    \/ \E t \in ImgTasks : ImgOpen(t)
    \/ \E t \in ImgTasks : ImgWrite(t)
    \/ \E t \in ImgTasks : ImgConvert(t)
    \/ \E t \in ImgTasks : BuildCleanup(t)
    \/ \E t \in ImgTasks : ImgEnd(t)

SpecImg == Init /\ [][NextImg]_vars

\* C9: whatever fails in image handling, _build_reply returns a reply with
\* the text block and no image, and raises nothing.
C9_ImageFailureRecovered ==
    \A t \in ImgTasks :
        img[t].pc = "done" =>
            /\ ~img[t].reply.raised
            /\ img[t].reply.text
            /\ img[t].failure # "none" => img[t].reply.image = "none"

\* a reply was returned after the download had succeeded and the decoding
\* had failed
C9_Witness ==
    \E t \in ImgTasks :
        /\ img[t].pc = "done"
        /\ img[t].failure = "decode"
        /\ img[t].reply = ImgReply(TRUE, "none", FALSE)

\* get_img_changeFormat returns or raises in this step
GetImgExit(t) == img[t].pc \in GetImgPcs /\ img'[t].pc \notin GetImgPcs

\* the calls of get_img_changeFormat in progress whose temporary file is f
UsersOf(f) == {t \in ImgTasks : img[t].pc \in GetImgPcs /\ TempPath(img[t].url) = f}

\* the temporary file is gone when the call returns or raises
TempGoneAtExit ==
    [][\A t \in ImgTasks : GetImgExit(t) => TempPath(img[t].url) \notin files']_vars

\* no temporary file outlives the calls that use it
TempNotLeftBehind == \A f \in files : f.kind = "temp" => UsersOf(f) # {}

\* C10: the temporary file is gone when get_img_changeFormat returns or
\* raises; with concurrent calls, no call loses its temporary file to another
\* call while it still needs it, and none is left behind. Calls that overlap
\* with a call for the very same URL are set aside: section 5 of the
\* specification leaves their collision open.
C10_TempFileScoped ==
    /\ TempGoneAtExit
    /\ [](\A t \in ImgTasks :
            (img[t].pc \in {"write", "convert"} /\ ~img[t].same_url) =>
                TempPath(img[t].url) \in files)
    /\ []TempNotLeftBehind

\* ------------------------------------------- formatters: the functions
\* the display strings are written in ASCII: "unknown_name" is the default
\* of main.py:132, "unknown_date" that of main.py:137, and so on
UnknownName == "unknown_name"
UnknownDate == "unknown_date"
NoSummary == <<"no_summary">>
PyNone == "None"

\* main.py:45-62 the type-code maps
type_map ==
    (1 :> "book") @@ (2 :> "anime") @@ (3 :> "music") @@ (4 :> "game")
    @@ (6 :> "real")
character_type_map ==
    (1 :> "character") @@ (2 :> "mecha") @@ (3 :> "ship") @@ (4 :> "organization")
person_type_map == (1 :> "individual") @@ (2 :> "company") @@ (3 :> "group")
\* main.py:297-301
group_map ==
    (1 :> "admin") @@ (2 :> "bangumi_admin") @@ (3 :> "doujin_admin")
    @@ (4 :> "muted") @@ (5 :> "banned") @@ (8 :> "person_admin")
    @@ (9 :> "wiki_admin") @@ (10 :> "user") @@ (11 :> "wiki")

\* {}
EmptyDict == [k \in {} |-> 0]

\* dict.get(key, default)
Get(p, key, default) == IF key \in DOMAIN p THEN p[key] ELSE default

\* map.get(p.get(key), fallback) and map.get(p.get(key, code), map[code]):
\* an absent key and an unknown code both end in the fallback label
MapGet(map, p, key, fallback) ==
    IF key \in DOMAIN p /\ p[key] \in DOMAIN map THEN map[p[key]] ELSE fallback

\* p.get(key) or other: an absent and an empty value give other
GetOr(p, key, other) ==
    IF key \in DOMAIN p /\ p[key] # "" THEN p[key] ELSE other

\* a slice that keeps the whole sequence
Slice_All(s, n) == s

\* s[:n] for n >= 0
Slice(s, n) == SubSeq(s, 1, IF n < Len(s) THEN n ELSE Len(s))

\* main.py:145-146 re.sub(r'<br\s*/?>', '\n', s), then re.sub(r'<.*?>', '', s),
\* on a text given as its sequence of words and tags
IsTag(w) == w \in {"<br>", "<b>"}
StripHtml(s) ==
    SelectSeq([i \in 1..Len(s) |-> IF s[i] = "<br>" THEN "nl" ELSE s[i]],
              LAMBDA w : ~IsTag(w))

Returned(text) == [raised |-> "none", text |-> text]
Raised(exc) == [raised |-> exc, text |-> <<>>]

ListFormatters ==
    {"format_fuzzy_list", "format_character_list", "format_person_list"}
InfoFormatters ==
    {"format_subject_info", "format_character_info", "format_person_info",
     "format_user_info"}

\* main.py:172, 223, 274 the map a list formatter reads and its fallback label
ListTypeMap(f) ==
    IF f = "format_fuzzy_list" THEN type_map
    ELSE IF f = "format_character_list" THEN character_type_map
    ELSE person_type_map
ListFallback(f) ==
    IF f = "format_fuzzy_list" THEN "anime"
    ELSE IF f = "format_character_list" THEN "character"
    ELSE "individual"

\* main.py:167, 218, 269 the fixed no-results strings
NoResultsText(f) == <<[kind |-> "no_results", of |-> f]>>
\* main.py:169, 220, 271
HeaderLine(f) == [kind |-> "header", of |-> f]

\* main.py:171-174, 222-224, 273-275 one numbered line; item['id'] is read
\* without a default
EntryLine(f, i, item) ==
    [kind |-> "entry", n |-> i,
     name |-> IF f = "format_fuzzy_list"
              THEN GetOr(item, "name_cn", Get(item, "name", UnknownName))
              ELSE Get(item, "name", UnknownName),
     type |-> MapGet(ListTypeMap(f), item, "type", ListFallback(f)),
     date |-> IF f = "format_fuzzy_list" THEN Get(item, "date", UnknownDate)
              ELSE "",
     id |-> item["id"]]

\* main.py:177, 227, 278
SuffixLine(total, limit) == [kind |-> "suffix", total |-> total, limit |-> limit]

\* main.py:163-179, 214-229, 265-280 the list formatters
format_list(f, data, limit) ==
    LET results == Get(data, "data", <<>>)
        shown == Slice(results, limit)
    IN  IF results = <<>> THEN Returned(NoResultsText(f))
        ELSE IF \E i \in 1..Len(shown) : "id" \notin DOMAIN shown[i]
        THEN Raised("KeyError")
        ELSE Returned(
                <<HeaderLine(f)>>
                \o [i \in 1..Len(shown) |-> EntryLine(f, i, shown[i])]
                \o (IF Get(data, "total", 0) > limit
                    THEN <<SuffixLine(data["total"], limit)>>
                    ELSE <<>>))

\* main.py:130-161 format_subject_info; tag['name'] is read without a default
format_subject_info(subject) ==
    LET name == Get(subject, "name", UnknownName)
        rating == Get(subject, "rating", EmptyDict)
        tags == Slice(Get(subject, "tags", <<>>), 5)
    IN  IF \E i \in 1..Len(tags) : "name" \notin DOMAIN tags[i]
        THEN Raised("KeyError")
        ELSE Returned(
            [name_cn |-> GetOr(subject, "name_cn", name),
             name |-> name,
             type |-> MapGet(type_map, subject, "type", type_map[2]),
             date |-> Get(subject, "date", UnknownDate),
             score |-> Get(rating, "score", 0),
             votes |-> Get(rating, "total", 0),
             rank |-> Get(subject, "rank", 0),
             tags |-> IF tags = <<>> THEN <<"no_tags">>
                      ELSE [i \in 1..Len(tags) |-> tags[i]["name"]],
             id |-> Get(subject, "id", PyNone),
             summary |-> StripHtml(Get(subject, "summary", NoSummary))])

\* main.py:193-212 format_character_info
format_character_info(character) ==
    Returned(
        [name |-> Get(character, "name", UnknownName),
         type |-> MapGet(character_type_map, character, "type",
                         character_type_map[1]),
         gender |-> Get(character, "gender", "unknown_gender"),
         id |-> Get(character, "id", PyNone),
         summary |-> StripHtml(Get(character, "summary", NoSummary))])

\* main.py:244-263 format_person_info
format_person_info(person) ==
    LET career == Get(person, "career", <<>>)
    IN  Returned(
            [name |-> Get(person, "name", UnknownName),
             type |-> MapGet(person_type_map, person, "type", person_type_map[1]),
             career |-> IF career = <<>> THEN <<"unknown_career">> ELSE career,
             id |-> Get(person, "id", PyNone),
             summary |-> StripHtml(Get(person, "summary", NoSummary))])

\* main.py:289-314 format_user_info: the text and the avatar URL
format_user_info(user) ==
    LET username == Get(user, "username", "unknown_username")
    IN  Returned(
            [nickname |-> Get(user, "nickname", username),
             username |-> username,
             group |-> MapGet(group_map, user, "user_group", "user"),
             sign |-> StripHtml(Get(user, "sign", <<"no_sign">>)),
             id |-> Get(user, "id", PyNone),
             avatar_url |-> Get(Get(user, "avatar", EmptyDict), "large", PyNone)])

format_info(f, payload) ==
    IF f = "format_subject_info" THEN format_subject_info(payload)
    ELSE IF f = "format_character_info" THEN format_character_info(payload)
    ELSE IF f = "format_person_info" THEN format_person_info(payload)
    ELSE format_user_info(payload)

\* ------------------------------------------------ formatters: the inputs
MaxData == 3
MaxTotal == 4
MaxLimit == 2

\* a payload with only the fields of S
Restrict(p, S) == [k \in S |-> p[k]]
Partial(p) == {Restrict(p, S) : S \in SUBSET DOMAIN p}

\* the entries of a search result: a complete one, one with nothing but a
\* name and an id, one with an unknown type code and no name, one with an
\* empty name_cn and no id
ListItems ==
    {[name |-> "n1", name_cn |-> "c1", type |-> 2, date |-> "d1", id |-> 7],
     [name |-> "n2", id |-> 8],
     [type |-> 99, id |-> 9],
     [name |-> "n4", name_cn |-> "", type |-> 1, date |-> "d4"]}

DataSeqs == UNION {[1..n -> ListItems] : n \in 0..MaxData}

\* search result pages: total is at least len(data); a page may lack total,
\* or data and total
ListPages ==
    {p \in {[data |-> d, total |-> n] : d \in DataSeqs, n \in 0..MaxTotal} :
        p.total >= Len(p.data)}
    \cup {[data |-> d] : d \in DataSeqs}
    \cup {EmptyDict}

FmtLimits == 1..MaxLimit

FullSubjects ==
    {[name |-> "n1", name_cn |-> "c1", type |-> 3, date |-> "d1",
      rating |-> [score |-> 8, total |-> 20], rank |-> 5,
      summary |-> <<"t", "<br>", "<b>", "u">>,
      tags |-> <<[name |-> "g1"], [name |-> "g2"]>>, id |-> 7],
     [name |-> "n2", name_cn |-> "", type |-> 99, date |-> "d2",
      rating |-> EmptyDict, rank |-> 0, summary |-> <<"t">>, tags |-> <<>>,
      id |-> 8]}
FullCharacters ==
    {[name |-> "n1", type |-> 2, gender |-> "g", summary |-> <<"t", "<b>">>,
      id |-> 7],
     [name |-> "n2", type |-> 99, gender |-> "g", summary |-> <<"t">>, id |-> 8]}
FullPersons ==
    {[name |-> "n1", type |-> 3, career |-> <<"artist", "writer">>,
      summary |-> <<"t", "<br>">>, id |-> 7],
     [name |-> "n2", type |-> 99, career |-> <<>>, summary |-> <<"t">>,
      id |-> 8]}
FullUsers ==
    {[username |-> "u1", nickname |-> "k1", sign |-> <<"t", "<b>">>,
      user_group |-> 11, avatar |-> [large |-> "url1"], id |-> 7],
     [username |-> "u2", nickname |-> "k2", sign |-> <<"t">>,
      user_group |-> 99, avatar |-> EmptyDict, id |-> 8]}

InfoPayloads(f) ==
    UNION {Partial(p) :
            p \in IF f = "format_subject_info" THEN FullSubjects
                  ELSE IF f = "format_character_info" THEN FullCharacters
                  ELSE IF f = "format_person_info" THEN FullPersons
                  ELSE FullUsers}

\* ------------------------------------------------- formatters: the steps
\* a command handler formats a search result page (main.py:399, 467, 535)
FormatList ==
    /\ fmt.pc = "idle"
    /\ \E f \in ListFormatters, data \in ListPages, limit \in FmtLimits :
        fmt' = [pc |-> "done", fn |-> f, payload |-> data, limit |-> limit,
                   out |-> format_list(f, data, limit)]
    /\ UNCHANGED <<apiVars, cmdVars, imgVars>>

\* a command handler formats an entity (main.py:369, 437, 505, 565)
FormatInfo ==
    /\ fmt.pc = "idle"
    /\ \E f \in InfoFormatters :
        \E payload \in InfoPayloads(f) :
            fmt' = [pc |-> "done", fn |-> f, payload |-> payload, limit |-> 0,
                    out |-> format_info(f, payload)]
    /\ UNCHANGED <<apiVars, cmdVars, imgVars>>

\* the text has been used
FormatEnd ==
    /\ fmt.pc = "done"
    /\ fmt' = IdleFmt
    /\ UNCHANGED <<apiVars, cmdVars, imgVars>>

NextFmt ==
    \/ FormatList
    \/ FormatInfo
    \/ FormatEnd

SpecFmt == Init /\ [][NextFmt]_vars

\* a list formatter has been applied to a page that has data and total and
\* whose entries all carry an id
ListCase ==
    /\ fmt.pc = "done"
    /\ fmt.fn \in ListFormatters
    /\ {"data", "total"} \subseteq DOMAIN fmt.payload
    /\ \A i \in 1..Len(fmt.payload["data"]) : "id" \in DOMAIN fmt.payload["data"][i]

EntriesOf(text) == SelectSeq(text, LAMBDA l : l.kind = "entry")
SuffixesOf(text) == SelectSeq(text, LAMBDA l : l.kind = "suffix")

\* the entries are those of data, in its order, numbered from 1, after the
\* header and before the suffix line
InDataOrder(text, data) ==
    LET entries == EntriesOf(text)
    IN  /\ Len(entries) <= Len(data)
        /\ text[1].kind = "header"
        /\ \A i \in 1..Len(entries) :
            /\ text[i + 1] = entries[i]
            /\ entries[i].n = i
            /\ entries[i].id = fmt.payload["data"][i]["id"]

FallbackLabel(f) ==
    IF f \in {"format_subject_info", "format_fuzzy_list"} THEN "anime"
    ELSE IF f \in {"format_character_info", "format_character_list"}
    THEN "character"
    ELSE "individual"

TypeMapOf(f) ==
    IF f \in {"format_subject_info", "format_fuzzy_list"} THEN type_map
    ELSE IF f \in {"format_character_info", "format_character_list"}
    THEN character_type_map
    ELSE person_type_map

\* the defaults an entity p is rendered with in r
DefaultsRendered(f, p, r) ==
    /\ ("name" \notin DOMAIN p /\ GetOr(p, "name_cn", "") = "") =>
            r.name = UnknownName
    /\ ("date" \notin DOMAIN p /\ "date" \in DOMAIN r /\ r.date # "") =>
            r.date = UnknownDate
    /\ ("summary" \notin DOMAIN p /\ "summary" \in DOMAIN r) =>
            r.summary = NoSummary
    /\ ("type" \notin DOMAIN p \/ Get(p, "type", 0) \notin DOMAIN TypeMapOf(f)) =>
            r.type = FallbackLabel(f)

\* C12: whatever fields are absent from the payload, a formatter returns text
\* and does not raise; an absent name, date or summary is rendered as its
\* default and an absent or unknown type code as the fallback label.
C12_FormatterDefaults ==
    fmt.pc = "done" =>
        /\ fmt.out.raised = "none"
        /\ fmt.fn \in InfoFormatters \ {"format_user_info"} =>
                DefaultsRendered(fmt.fn, fmt.payload, fmt.out.text)
        /\ fmt.fn \in ListFormatters =>
                LET entries == EntriesOf(fmt.out.text)
                IN  \A i \in 1..Len(entries) :
                        DefaultsRendered(fmt.fn, fmt.payload["data"][i], entries[i])

\* ------------------------------------------------ one caller at a time
\* no call of the API client is in progress
NoCallInProgress == \A t \in Tasks : task[t].pc = "idle"

\* the API client used by one caller at a time: a call starts only when the
\* one before it has returned or raised
NextSeq ==
    \/ \E t \in Tasks : NoCallInProgress /\ SearchSubjects(t)
    \/ \E t \in Tasks : NoCallInProgress /\ SearchUncached(t)
    \/ \E t \in Tasks : NoCallInProgress /\ GetDetails(t)
    \/ \E t \in Tasks : Wake(t)
    \/ \E t \in Tasks : Respond(t)
    \/ \E t \in Tasks : TransportFail(t)
    \/ TimerFire
    \/ AdvanceToDeadline
    \/ Tick

SpecSeq == Init /\ [][NextSeq]_vars

\* task t enters _request in this step
EnterStep(t) == task[t].pc = "idle" /\ task'[t].pc # "idle"

\* C13: with one caller at a time, a caller that finds elapsed < 1.1 s waits
\* 1.1 - elapsed and one that finds elapsed >= 1.1 s does not wait; either
\* way last_request_time is the dispatch time once the request is sent, so
\* consecutive dispatches are at least 1.1 s apart and last_request_time
\* never decreases.
C13_SingleCallerWait ==
    /\ [][\A t \in Tasks :
            /\ EnterStep(t) =>
                LET elapsed == now - last_request_time
                IN  IF elapsed < MinInterval
                    THEN /\ task'[t].pc = "sleep"
                         /\ task'[t].wake - now = MinInterval - elapsed
                         /\ last_request_time' = last_request_time
                    ELSE /\ task'[t].pc = "http"
                         /\ last_request_time' = now
            /\ (task[t].pc = "sleep" /\ task'[t].pc = "http") =>
                    /\ now = task[t].wake
                    /\ last_request_time' = now]_vars
    /\ [][last_request_time' >= last_request_time]_vars
    /\ [](prev_dispatch # 0 =>
            last_request_time - prev_dispatch >= MinInterval)

\* a caller that arrived TickStep after the previous dispatch sleeps for the
\* remainder of the interval
C13_Witness ==
    \E t \in Tasks :
        /\ task[t].pc = "sleep"
        /\ now - last_request_time = TickStep
        /\ task[t].wake - now = MinInterval - TickStep
        /\ prev_dispatch # 0

=============================================================================
